---- MODULE Spec2Model ----
(***************************************************************************)
(* The daily-challenge bridge of love2d-honeycomb-server.                  *)
(*                                                                         *)
(* The repository holds several iterations of the server.  Two of them are *)
(* modelled here, each as a specification of its own over the same         *)
(* variables (the fields of challengeStore and the requests in flight):    *)
(*                                                                         *)
(*   SpecRewards  src/unnamed/part_000: /challenges, /progress (which      *)
(*                awards the badge itself) and /claim.                     *)
(*   Spec         src/server.js lines 1-962: /challenges, /verify-session, *)
(*                /link-wallet, /check-session, /progress (XP).            *)
(*   SpecRoutes   src/server.js lines 1-962, the Honeycomb routes, which   *)
(*                share only the session store with the routes above:      *)
(*                /honeycomb-auth-confirm, /getAccessToken, /data, with    *)
(*                /verify-session and /link-wallet.                        *)
(*                                                                         *)
(* Node runs one handler at a time and a handler gives up control only at  *)
(* an await, so an action is a handler from its start, or from an await,   *)
(* to its next await or its response.  A call to the Honeycomb / Solana    *)
(* collaborators is an await whose outcome (resolved or rejected) is       *)
(* chosen by the environment.  Objects are shared by reference in the      *)
(* code, so progress records live in a heap and the ledger holds           *)
(* references to them.  The verb and target strings of a challenge are     *)
(* read by no handler and are left out of the challenge record.            *)
(***************************************************************************)
EXTENDS Integers, Sequences, FiniteSets, TLC

(* ------------------------------ bounds -------------------------------- *)
MaxNow == 1        \* Date.now() runs over 0..MaxNow
TicksPerDay == 1   \* clock instants per calendar day
MaxInflight == 2   \* handlers suspended at an await at one time
MaxCompleted == 4  \* largest completed counter explored
MaxDebt == 1       \* smallest completed counter explored is -MaxDebt
AmountSpread == 0  \* amounts are drawn from MinAmount..MinAmount+AmountSpread
MaxIdx == 0        \* requests name the challenges with index 0..MaxIdx
MaxPayouts == 2    \* successful payouts recorded per wallet and challenge
MaxRequests == 3   \* requests served by server.js
MaxReports == 4    \* requests served by part_000

(* ------------------------- program constants -------------------------- *)
NChallenges == 3
MinAmount == 3
RewardPerUnit == 10

(* ------------------------------ values -------------------------------- *)
Wallets == {"W1", "W2"}
\* the wallets that report progress and claim
Players == {"W1"}
NoDate == 0                         \* currentDate: ''
NoObj == 0                          \* undefined where an object is expected
Amounts == MinAmount..(MinAmount + AmountSpread)
\* the progress field of a request: a negative delta, one unit, a whole amount
Deltas == {0 - MaxDebt, 1} \cup Amounts
NoChallenge == [id |-> <<0, 0>>, amount |-> 0, reward |-> 0, badgeIndex |-> 0]
EmptyMap == [x \in {} |-> 0]
AllIds == {<<t, i>> : t \in 0..MaxNow, i \in 0..(NChallenges - 1)}
\* the property key a request without a walletAddress field reads and writes
Undefined == "undefined"
LedgerKeys == Wallets \cup {Undefined}
\* playerProgress = {}: no key has an entry (playerProgress[w] is undefined)
NoLedger == [w \in LedgerKeys |-> [defined |-> FALSE, entries |-> <<>>]]
NonePaid == [k \in Wallets \X AllIds |-> 0]
Tokens == {"T1", "T2"}
\* challengeStore.sessions is undefined until the first session is stored
NoSessions == [defined |-> FALSE, map |-> [t \in Tokens |-> <<>>]]
Idle == [op |-> "idle", pc |-> "", wallet |-> "", challengeId |-> <<0, 0>>,
         obj |-> NoObj, challenge |-> NoChallenge, completions |-> <<>>,
         totalReward |-> 0, dirty |-> FALSE, delta |-> 0]
NoProgress == [completed |-> 0, claimed |-> FALSE]
Quiet == [op |-> "", phase |-> "", wallet |-> "", challengeId |-> <<0, 0>>,
          delta |-> 0, status |-> 0, error |-> "", progress |-> NoProgress,
          reward |-> 0, challenges |-> <<>>, clean |-> FALSE, follows |-> FALSE,
          token |-> "", session |-> <<>>, malformed |-> FALSE]

VARIABLES
  now,             \* Date.now()
  currentDate,     \* challengeStore.currentDate
  challenges,      \* challengeStore.challenges
  playerProgress,  \* challengeStore.playerProgress: wallet -> its entries, in insertion order
  heap,            \* the progress records: object -> {completed, claimed}
  sessions,        \* challengeStore.sessions: undefined, or token -> session
  activeSessions,  \* the activeSessions Map: token -> {walletAddress}
  honeycombProject,\* the project address, "" while undefined
  inflight,        \* slot -> the handler suspended there, or Idle
  boot,            \* position of the app.listen callback
  hist,            \* history: requests served, payouts of a completed <<wallet, challengeId>>
  last             \* history: the last step of a handler and its response, if any

vars == <<now, currentDate, challenges, playerProgress, heap, sessions,
          activeSessions, honeycombProject, inflight, boot, hist, last>>

\* the variables of the session bridge, which part_000 does not have
bridge == <<sessions, activeSessions, honeycombProject>>

(* ------------------------------ helpers ------------------------------- *)
Min(a, b) == IF a < b THEN a ELSE b

Put(f, k, v) == [x \in DOMAIN f \cup {k} |-> IF x = k THEN v ELSE f[x]]

\* new Date(t).toDateString(): the calendar day of an instant
DayOf(t) == (t \div TicksPerDay) + 1

\* new Date().toDateString()
Today == DayOf(now)

\* mutant: the day is not compared, every evaluation resets
NewDayAlways == TRUE

\* challengeStore.currentDate !== today
NewDay == currentDate # Today

\* challenges.find(c => c.id === challengeId)
Find(cs, cid) ==
  IF \E i \in 1..Len(cs) : cs[i].id = cid
  THEN cs[CHOOSE i \in 1..Len(cs) : cs[i].id = cid /\ \A j \in 1..(i - 1) : cs[j].id # cid]
  ELSE NoChallenge

\* entries[challengeId] of a wallet's entries, NoObj for undefined
Lookup(entries, cid) ==
  IF \E i \in 1..Len(entries) : entries[i].id = cid
  THEN entries[CHOOSE i \in 1..Len(entries) : entries[i].id = cid].obj
  ELSE NoObj

\* entries[challengeId] = o: a present key keeps its place, a new key is last
Assign(entries, cid, o) ==
  IF \E i \in 1..Len(entries) : entries[i].id = cid
  THEN [i \in 1..Len(entries) |->
          IF entries[i].id = cid THEN [id |-> cid, obj |-> o] ELSE entries[i]]
  ELSE Append(entries, [id |-> cid, obj |-> o])

NewObj(h) == CHOOSE o \in 1..(Cardinality(DOMAIN h) + 1) : o \notin DOMAIN h

\* the objects the ledger or some suspended handler still refers to
Live(pp, inf) ==
  UNION {{pp[w].entries[i].obj : i \in 1..Len(pp[w].entries)} : w \in DOMAIN pp}
  \cup {inf[s].obj : s \in DOMAIN inf}
  \cup UNION {{inf[s].completions[i].obj : i \in 1..Len(inf[s].completions)} : s \in DOMAIN inf}

Collect(h, pp, inf) == [o \in (DOMAIN h \cap Live(pp, inf)) |-> h[o]]

Slots == 1..MaxInflight

\* mutant: a claim that awaits its payout keeps every other handler from
\* suspending (a lock held across the await)
FreeSlotsBehindClaim ==
  {s \in Slots : inflight[s].op = "idle" /\ \A t \in Slots : inflight[t].op # "claim"}

FreeSlots == {s \in Slots : inflight[s].op = "idle"}
FreeSlot == CHOOSE s \in FreeSlots : \A t \in FreeSlots : s <= t

\* a progress request for wallet w reaches the handlers: claims of w in flight
\* are no longer followed by "no intervening progress report"
Touch(inf, w) ==
  [s \in DOMAIN inf |->
     IF inf[s].op = "claim" /\ inf[s].wallet = w THEN [inf[s] EXCEPT !.dirty = TRUE]
     ELSE inf[s]]

\* generateDailyChallenges (part_000): reward = amount * 10
RewardsGenerate(amount) ==
  [i \in 1..NChallenges |->
     [id |-> <<now, i - 1>>, amount |-> amount[i],
      reward |-> amount[i] * RewardPerUnit, badgeIndex |-> i - 1]]

\* the ids a request can name: challenge i of any generation so far
RequestIds == {<<t, i>> : t \in 0..now, i \in 0..MaxIdx}

(* =================== src/unnamed/part_000: SpecRewards ================= *)

\* the completed counter stays within the explored range
InRange(n) == (0 - MaxDebt) <= n /\ n <= MaxCompleted

\* Object.entries(...).filter(([_, progress]) => progress.completed && !progress.claimed)
Completions(h, pp, w) ==
  IF pp[w].defined
  THEN SelectSeq(pp[w].entries, LAMBDA e : h[e.obj].completed # 0 /\ ~h[e.obj].claimed)
  ELSE <<>>

\* completions.reduce((sum, [challengeId, _]) => sum + (challenge?.reward || 0), 0)
RECURSIVE TotalReward(_, _)
TotalReward(cs, completions) ==
  IF completions = <<>> THEN 0
  ELSE Find(cs, Head(completions).id).reward + TotalReward(cs, Tail(completions))

\* mutant: the loop that marks the claimed records is left out
MarkClaimedNone(h, pp, w, completions) == [heap |-> h, threw |-> FALSE]

\* completions.forEach(([challengeId, _]) => playerProgress[wallet][challengeId].claimed = true)
\* the lookup goes through the ledger of the moment; a missing wallet or record
\* throws and ends the loop
RECURSIVE MarkClaimed(_, _, _, _)
MarkClaimed(h, pp, w, completions) ==
  IF completions = <<>> THEN [heap |-> h, threw |-> FALSE]
  ELSE IF ~pp[w].defined \/ Lookup(pp[w].entries, Head(completions).id) = NoObj
  THEN [heap |-> h, threw |-> TRUE]
  ELSE MarkClaimed(
         [h EXCEPT ![Lookup(pp[w].entries, Head(completions).id)].claimed = TRUE],
         pp, w, Tail(completions))

\* app.post('/progress') up to its first await or its response
P0_Progress(w, cid, d) ==
  /\ hist.served < MaxReports
  /\ hist' = [hist EXCEPT !.served = @ + 1]
  /\   LET challenge == Find(challenges, cid)
           pp1 == [playerProgress EXCEPT ![w].defined = TRUE]
           stored == Lookup(pp1[w].entries, cid)
           o == IF stored # NoObj THEN stored ELSE NewObj(heap)
           before == IF stored # NoObj THEN heap[o] ELSE NoProgress
           h1 == Put(heap, o, [before EXCEPT !.completed = before.completed + d])
           req == [Quiet EXCEPT !.op = "progress", !.phase = "request", !.wallet = w,
                                !.challengeId = cid, !.delta = d]
       IN
       IF challenge = NoChallenge
       THEN /\ last' = [req EXCEPT !.status = 400, !.error = "Challenge not found"]
            /\ inflight' = Touch(inflight, w)
            /\ UNCHANGED <<now, currentDate, challenges, playerProgress, heap, boot, bridge>>
       ELSE /\ InRange(h1[o].completed)
            /\ IF h1[o].completed >= challenge.amount /\ ~h1[o].claimed
               THEN /\ FreeSlots # {}
                    /\ playerProgress' = pp1
                    /\ inflight' = [Touch(inflight, w) EXCEPT ![FreeSlot] =
                          [Idle EXCEPT !.op = "progress", !.pc = "awardBadge", !.wallet = w,
                                       !.challengeId = cid, !.obj = o, !.challenge = challenge]]
                    /\ last' = req
               ELSE /\ playerProgress' = [pp1 EXCEPT ![w].entries = Assign(@, cid, o)]
                    /\ inflight' = Touch(inflight, w)
                    /\ last' = [req EXCEPT !.status = 200, !.progress = h1[o]]
            /\ heap' = Collect(h1, playerProgress', inflight')
            /\ UNCHANGED <<now, currentDate, challenges, boot, bridge>>

\* await awardBadge(walletAddress, challenge.badgeIndex) settles
P0_AwardBadge(s, ok) ==
  /\ inflight[s].op = "progress" /\ inflight[s].pc = "awardBadge"
  /\ IF ok
     THEN /\ inflight' = [inflight EXCEPT ![s].pc = "updatePlayerStats"]
          /\ heap' = heap
          /\ last' = [Quiet EXCEPT !.op = "progress", !.phase = "awardBadge",
                        !.wallet = inflight[s].wallet,
                        !.challengeId = inflight[s].challengeId]
     ELSE /\ inflight' = [inflight EXCEPT ![s] = Idle]
          /\ heap' = Collect(heap, playerProgress, inflight')
          /\ last' = [Quiet EXCEPT !.op = "progress", !.phase = "awardBadge",
                        !.wallet = inflight[s].wallet,
                        !.challengeId = inflight[s].challengeId,
                        !.status = 400, !.error = "collaborator"]
  /\ UNCHANGED <<now, currentDate, challenges, playerProgress, boot, hist, bridge>>

\* await updatePlayerStats(walletAddress, challenge.reward) settles; then
\* claimed = true, the record is stored and the response is sent
P0_UpdatePlayerStats(s, ok) ==
  LET h == inflight[s]
      h1 == [heap EXCEPT ![h.obj].claimed = TRUE]
      res == [Quiet EXCEPT !.op = "progress", !.phase = "updatePlayerStats",
                !.wallet = h.wallet, !.challengeId = h.challengeId]
  IN
  /\ h.op = "progress" /\ h.pc = "updatePlayerStats"
  /\ inflight' = [inflight EXCEPT ![s] = Idle]
  /\ IF ~ok
     THEN /\ playerProgress' = playerProgress
          /\ heap' = Collect(heap, playerProgress', inflight')
          /\ last' = [res EXCEPT !.status = 400, !.error = "collaborator"]
     ELSE IF ~playerProgress[h.wallet].defined
     THEN /\ playerProgress' = playerProgress
          /\ heap' = Collect(h1, playerProgress', inflight')
          /\ last' = [res EXCEPT !.status = 400, !.error = "TypeError"]
     ELSE /\ playerProgress' = [playerProgress EXCEPT ![h.wallet].entries =
                                  Assign(@, h.challengeId, h.obj)]
          /\ heap' = Collect(h1, playerProgress', inflight')
          /\ last' = [res EXCEPT !.status = 200, !.progress = h1[h.obj]]
  /\ UNCHANGED <<now, currentDate, challenges, boot, hist, bridge>>

\* app.post('/claim') up to await distributeRewards(...)
P0_Claim(w) ==
  /\ hist.served < MaxReports
  /\ hist' = [hist EXCEPT !.served = @ + 1]
  /\   LET completions == Completions(heap, playerProgress, w)
           req == [Quiet EXCEPT !.op = "claim", !.phase = "request", !.wallet = w,
                !.follows = (last.op = "claim" /\ last.status = 200 /\ last.clean
                             /\ last.wallet = w)]
       IN
       IF completions = <<>>
       THEN /\ last' = [req EXCEPT !.status = 400, !.error = "No rewards to claim"]
            /\ UNCHANGED <<now, currentDate, challenges, playerProgress, heap, inflight,
                           boot, bridge>>
       ELSE /\ FreeSlots # {}
            /\ inflight' = [inflight EXCEPT ![FreeSlot] =
                  [Idle EXCEPT !.op = "claim", !.pc = "distributeRewards", !.wallet = w,
                               !.completions = completions,
                               !.totalReward = TotalReward(challenges, completions)]]
            /\ last' = req
            /\ UNCHANGED <<now, currentDate, challenges, playerProgress, heap, boot, bridge>>

\* mutant: the records are marked claimed whatever the outcome of the payout
P0_DistributeRewardsMarksAnyway(s, ok) ==
  LET h == inflight[s]
      m == MarkClaimed(heap, playerProgress, h.wallet, h.completions)
      res == [Quiet EXCEPT !.op = "claim", !.phase = "distributeRewards",
                !.wallet = h.wallet]
  IN
  /\ h.op = "claim" /\ h.pc = "distributeRewards"
  /\ inflight' = [inflight EXCEPT ![s] = Idle]
  /\ heap' = Collect(m.heap, playerProgress, inflight')
  /\ hist' = hist
  /\ last' = IF ok /\ ~m.threw
             THEN [res EXCEPT !.status = 200, !.reward = h.totalReward, !.clean = ~h.dirty]
             ELSE [res EXCEPT !.status = 400, !.error = "collaborator"]
  /\ UNCHANGED <<now, currentDate, challenges, playerProgress, boot, bridge>>

\* await distributeRewards(walletAddress, totalReward) settles; on success the
\* records are marked claimed and the response is sent
P0_DistributeRewards(s, ok) ==
  LET h == inflight[s]
      \* history: the completed challenges this payout covers
      covered == {<<h.wallet, h.completions[i].id>> : i \in
                    {j \in 1..Len(h.completions) :
                       /\ Find(challenges, h.completions[j].id) # NoChallenge
                       /\ heap[h.completions[j].obj].completed
                            >= Find(challenges, h.completions[j].id).amount}}
      m == MarkClaimed(heap, playerProgress, h.wallet, h.completions)
      res == [Quiet EXCEPT !.op = "claim", !.phase = "distributeRewards",
                !.wallet = h.wallet]
  IN
  /\ h.op = "claim" /\ h.pc = "distributeRewards"
  /\ inflight' = [inflight EXCEPT ![s] = Idle]
  /\ IF ~ok
     THEN /\ heap' = Collect(heap, playerProgress, inflight')
          /\ hist' = hist
          /\ last' = [res EXCEPT !.status = 400, !.error = "collaborator"]
     ELSE /\ \A k \in covered : hist.paid[k] < MaxPayouts
          /\ hist' = [hist EXCEPT !.paid = [k \in DOMAIN @ |->
                                     @[k] + (IF k \in covered THEN 1 ELSE 0)]]
          /\ heap' = Collect(m.heap, playerProgress, inflight')
          /\ last' = IF m.threw
                     THEN [res EXCEPT !.status = 400, !.error = "TypeError"]
                     ELSE [res EXCEPT !.status = 200, !.reward = h.totalReward,
                                      !.clean = ~h.dirty]
  /\ UNCHANGED <<now, currentDate, challenges, playerProgress, boot, bridge>>

\* app.get('/challenges') up to await createHoneycombBadges(...) or its response
P0_GetChallenges ==
  /\ hist.served < MaxReports
  /\ hist' = [hist EXCEPT !.served = @ + 1]
  /\   LET req == [Quiet EXCEPT !.op = "challenges", !.phase = "request"] IN
       IF NewDay
       THEN /\ FreeSlots # {}
            /\ \E amount \in [1..NChallenges -> Amounts] :
                 challenges' = RewardsGenerate(amount)
            /\ currentDate' = Today
            /\ playerProgress' = NoLedger
            /\ inflight' = [inflight EXCEPT ![FreeSlot] =
                  [Idle EXCEPT !.op = "challenges", !.pc = "createHoneycombBadges"]]
            /\ heap' = Collect(heap, playerProgress', inflight')
            /\ last' = req
            /\ UNCHANGED <<now, boot, bridge>>
       ELSE /\ last' = [req EXCEPT !.status = 200, !.challenges = challenges]
            /\ UNCHANGED <<now, currentDate, challenges, playerProgress, heap, inflight,
                           boot, bridge>>

\* await createHoneycombBadges(...) settles: res.json(challengeStore.challenges),
\* or the rejection leaves the handler and no response is sent
P0_CreateHoneycombBadges(s, ok) ==
  LET res == [Quiet EXCEPT !.op = "challenges", !.phase = "createHoneycombBadges"] IN
  /\ inflight[s].op = "challenges" /\ inflight[s].pc = "createHoneycombBadges"
  /\ inflight' = [inflight EXCEPT ![s] = Idle]
  /\ last' = IF ok THEN [res EXCEPT !.status = 200, !.challenges = challenges]
             ELSE [res EXCEPT !.error = "unhandled rejection"]
  /\ UNCHANGED <<now, currentDate, challenges, playerProgress, heap, boot, hist, bridge>>

\* app.listen callback after await initializeHoneycombProject(): the first set
P0_ListenGenerate ==
  /\ boot = "initializeHoneycombProject"
  /\ currentDate' = Today
  /\ \E amount \in [1..NChallenges -> Amounts] :
       challenges' = RewardsGenerate(amount)
  /\ boot' = "createHoneycombBadges"
  /\ UNCHANGED <<now, playerProgress, heap, inflight, hist, bridge, last>>

\* app.listen callback: await createHoneycombBadges(...) settles
P0_ListenBadges ==
  /\ boot = "createHoneycombBadges"
  /\ boot' = "ready"
  /\ UNCHANGED <<now, currentDate, challenges, playerProgress, heap, inflight, hist, bridge, last>>

\* time passes
Tick ==
  /\ now < MaxNow
  /\ now' = now + 1
  /\ UNCHANGED <<currentDate, challenges, playerProgress, heap, inflight, boot, hist, bridge, last>>

InitRewards ==
  /\ now = 0
  /\ currentDate = NoDate
  /\ challenges = <<>>
  /\ playerProgress = NoLedger
  /\ heap = EmptyMap
  /\ inflight = [s \in Slots |-> Idle]
  /\ boot = "initializeHoneycombProject"
  /\ sessions = NoSessions
  /\ activeSessions = [t \in Tokens |-> <<>>]
  /\ honeycombProject = ""
  /\ hist = [served |-> 0, paid |-> NonePaid]
  /\ last = Quiet

NextRewards ==
  \/ Tick
  \/ P0_ListenGenerate
  \/ P0_ListenBadges
  \/ P0_GetChallenges
  \/ \E s \in Slots, ok \in BOOLEAN : P0_CreateHoneycombBadges(s, ok)
  \/ \E w \in Players, cid \in RequestIds, d \in Deltas : P0_Progress(w, cid, d)
  \/ \E s \in Slots, ok \in BOOLEAN : P0_AwardBadge(s, ok)
  \/ \E s \in Slots, ok \in BOOLEAN : P0_UpdatePlayerStats(s, ok)
  \/ \E w \in Players : P0_Claim(w)
  \/ \E s \in Slots, ok \in BOOLEAN : P0_DistributeRewards(s, ok)

SpecRewards == InitRewards /\ [][NextRewards]_vars

(* ==================== src/server.js lines 1-962: Spec ================== *)

\* what a request can carry as walletAddress: a wallet, or no public key at all
WalletInputs == Wallets \cup {"not-a-key"}
AccessTokens == {"A1"}

\* `Verify wallet for game session: ${sessionToken}`
SessionMessage(token) == [text |-> "Verify wallet for game session: ", arg |-> token]

\* a signature string: the 64 bytes signer made over msg ("ok"), the same with a
\* byte changed ("tampered"), a list of another length ("short"), or no field
Sign(signer, msg) == [form |-> "ok", signer |-> signer, msg |-> msg]
Tampered(sig) == [sig EXCEPT !.form = "tampered"]
Short == [form |-> "short", signer |-> "", msg |-> SessionMessage("")]
Missing == [form |-> "missing", signer |-> "", msg |-> SessionMessage("")]
Signatures ==
  {Sign(w, SessionMessage(t)) : w \in Wallets, t \in Tokens}
  \cup {Tampered(Sign(w, SessionMessage(t))) : w \in Players, t \in Tokens}
  \cup {Short, Missing}

\* new PublicKey(x) returns (it throws on what is no 32-byte key)
IsPublicKey(x) == x \in Wallets

\* nacl.sign.detached.verify(messageBytes, signatureBytes, publicKeyBytes)
DetachedVerify(message, signature, publicKey) ==
  signature.form = "ok" /\ signature.signer = publicKey /\ signature.msg = message

\* the request's signature or public key is malformed: no signature field, a
\* byte list of another length than 64, or what is no 32-byte key
Malformed(signature, publicKey) ==
  signature.form \in {"missing", "short"} \/ ~IsPublicKey(publicKey)

\* mutant: a signature that does not verify is accepted
SessionVerifiedLax(sessionToken, walletAddress, signature) ==
  IF signature.form \in {"missing", "short"} \/ ~IsPublicKey(walletAddress)
  THEN "throw"
  ELSE "verified"

\* the try block of /verify-session up to `verified`: "throw" when
\* signature.split, nacl (bad signature size) or new PublicKey throws
SessionVerified(sessionToken, walletAddress, signature) ==
  IF signature.form \in {"missing", "short"} \/ ~IsPublicKey(walletAddress)
  THEN "throw"
  ELSE IF DetachedVerify(SessionMessage(sessionToken), signature, walletAddress)
  THEN "verified"
  ELSE "invalid"

\* verifySignature(message, signature, publicKey): every throw is caught -> false
verifySignature(message, signature, publicKey) ==
  IF ~IsPublicKey(publicKey) \/ signature.form \in {"missing", "short"}
  THEN FALSE
  ELSE DetachedVerify(message, signature, publicKey)

\* mutant: Array.from({ length: 2 }, ...)
generateTwoChallenges(amount, units) ==
  [i \in 1..(NChallenges - 1) |->
     [id |-> <<now, i - 1>>, amount |-> amount[i],
      reward |-> units[i] * RewardPerUnit, badgeIndex |-> i - 1]]

\* generateDailyChallenges (server.js): amount and reward drawn independently
generateDailyChallenges(amount, units) ==
  [i \in 1..NChallenges |->
     [id |-> <<now, i - 1>>, amount |-> amount[i],
      reward |-> units[i] * RewardPerUnit, badgeIndex |-> i - 1]]

\* app.get("/challenges")
GetChallenges ==
  LET req == [Quiet EXCEPT !.op = "challenges", !.phase = "request", !.status = 200] IN
  /\ boot # "exit"
  /\ hist.served < MaxRequests
  /\ hist' = [hist EXCEPT !.served = @ + 1]
  /\ IF NewDay
     THEN /\ currentDate' = Today
          /\ \E amount \in [1..NChallenges -> Amounts], units \in [1..NChallenges -> Amounts] :
               challenges' = generateDailyChallenges(amount, units)
          /\ playerProgress' = NoLedger
          /\ heap' = Collect(heap, playerProgress', inflight)
     ELSE UNCHANGED <<currentDate, challenges, playerProgress, heap>>
  /\ last' = [req EXCEPT !.challenges = challenges']
  /\ UNCHANGED <<now, bridge, inflight, boot>>

\* app.post("/link-wallet"): verifySignature(walletAddress, signature) is called
\* with the wallet as message and without a public key
LinkWallet(sessionToken, walletAddress, signature) ==
  LET req == [Quiet EXCEPT !.op = "link-wallet", !.phase = "request",
                !.malformed = Malformed(signature, "")]
      isValid == verifySignature([text |-> "", arg |-> walletAddress], signature, "")
  IN
  /\ boot # "exit"
  /\ hist.served < MaxRequests
  /\ hist' = [hist EXCEPT !.served = @ + 1]
  /\ IF isValid
     THEN /\ activeSessions' = [activeSessions EXCEPT ![sessionToken] =
                                   <<[walletAddress |-> walletAddress]>>]
          /\ last' = [req EXCEPT !.status = 200]
     ELSE /\ activeSessions' = activeSessions
          /\ last' = [req EXCEPT !.status = 401, !.error = "Invalid signature"]
  /\ UNCHANGED <<now, currentDate, challenges, playerProgress, heap, sessions,
                 honeycombProject, inflight, boot>>

\* app.post("/verify-session")
VerifySession(sessionToken, walletAddress, signature, accessToken) ==
  LET req == [Quiet EXCEPT !.op = "verify-session", !.phase = "request",
                !.token = sessionToken,
                !.malformed = Malformed(signature, walletAddress)]
      verified == SessionVerified(sessionToken, walletAddress, signature)
      session == [walletAddress |-> walletAddress, verifiedAt |-> now,
                  signature |-> signature, accessToken |-> accessToken]
  IN
  /\ boot # "exit"
  /\ hist.served < MaxRequests
  /\ hist' = [hist EXCEPT !.served = @ + 1]
  /\ IF verified = "verified"
     THEN /\ sessions' = [defined |-> TRUE,
                          map |-> [sessions.map EXCEPT ![sessionToken] = <<session>>]]
          /\ last' = [req EXCEPT !.status = 200]
     ELSE /\ sessions' = sessions
          /\ last' = [req EXCEPT !.status = 400,
                        !.error = IF verified = "throw" THEN "TypeError"
                                  ELSE "Invalid signature"]
  /\ UNCHANGED <<now, currentDate, challenges, playerProgress, heap, activeSessions,
                 honeycombProject, inflight, boot>>

\* a property name that every object literal inherits from Object.prototype
Inherited == "constructor"

\* what sessions["constructor"] evaluates to once sessions = {} exists: the
\* function Object, a truthy value with none of the fields of a session
ObjectConstructor ==
  [walletAddress |-> Undefined, verifiedAt |-> NoDate, signature |-> Missing,
   accessToken |-> Undefined]

\* challengeStore.sessions?.[token]: an own property, or an inherited one
SessionOf(ss, token) ==
  IF ~ss.defined THEN <<>>
  ELSE IF token = Inherited THEN <<ObjectConstructor>>
  ELSE ss.map[token]

\* app.get("/check-session"): res.json(session || { error: "Not linked" })
CheckSession(token) ==
  LET req == [Quiet EXCEPT !.op = "check-session", !.phase = "request",
                !.token = token, !.status = 200]
      session == SessionOf(sessions, token)
  IN
  /\ boot # "exit"
  /\ hist.served < MaxRequests
  /\ hist' = [hist EXCEPT !.served = @ + 1]
  /\ last' = IF session = <<>> THEN [req EXCEPT !.error = "Not linked"]
             \* res.json(Object): a function has no JSON text, the body is empty
             ELSE IF token = Inherited THEN req
             ELSE [req EXCEPT !.session = session, !.wallet = session[1].walletAddress]
  /\ UNCHANGED <<now, currentDate, challenges, playerProgress, heap, bridge, inflight, boot>>

\* app.post("/progress") up to its first await or its response
Progress(sessionToken, walletAddress, cid, d) ==
  LET req == [Quiet EXCEPT !.op = "progress", !.phase = "request",
                !.wallet = walletAddress, !.challengeId = cid, !.delta = d,
                !.token = sessionToken]
      session == IF sessionToken = "" THEN <<>> ELSE SessionOf(sessions, sessionToken)
      pp1 == [playerProgress EXCEPT ![walletAddress].defined = TRUE]
      stored == Lookup(pp1[walletAddress].entries, cid)
      o == IF stored # NoObj THEN stored ELSE NewObj(heap)
      before == IF stored # NoObj THEN heap[o] ELSE NoProgress
      h1 == Put(heap, o, [before EXCEPT !.completed = before.completed + d])
  IN
  /\ boot # "exit"
  /\ hist.served < MaxRequests
  /\ hist' = [hist EXCEPT !.served = @ + 1]
  /\ IF sessionToken # "" /\ (session = <<>> \/ session[1].walletAddress # walletAddress)
     THEN /\ last' = [req EXCEPT !.status = 400, !.error = "Invalid session"]
          /\ UNCHANGED <<playerProgress, heap, inflight>>
     ELSE /\ InRange(h1[o].completed)
          /\ playerProgress' = pp1
          /\ IF honeycombProject # ""
             THEN /\ FreeSlots # {}
                  /\ inflight' = [inflight EXCEPT ![FreeSlot] =
                        [Idle EXCEPT !.op = "progress", !.pc = "getProfileAddress",
                                     !.wallet = walletAddress, !.challengeId = cid,
                                     !.obj = o, !.delta = d]]
                  /\ last' = req
             ELSE /\ inflight' = inflight
                  /\ last' = [req EXCEPT !.status = 200, !.progress = h1[o]]
          /\ heap' = Collect(h1, playerProgress', inflight')
  /\ UNCHANGED <<now, currentDate, challenges, bridge, boot>>

\* /progress: await getProfileAddress(walletAddress) settles
ProgressGetProfileAddress(s, ok) ==
  LET h == inflight[s]
      res == [Quiet EXCEPT !.op = "progress", !.phase = "getProfileAddress",
                !.wallet = h.wallet, !.challengeId = h.challengeId, !.delta = h.delta]
  IN
  /\ boot # "exit"
  /\ h.op = "progress" /\ h.pc = "getProfileAddress"
  /\ IF ok
     THEN /\ inflight' = [inflight EXCEPT ![s].pc = "sendTransactionT"]
          /\ last' = res
     ELSE /\ inflight' = [inflight EXCEPT ![s] = Idle]
          /\ last' = [res EXCEPT !.status = 400, !.error = "collaborator"]
  /\ heap' = Collect(heap, playerProgress, inflight')
  /\ UNCHANGED <<now, currentDate, challenges, playerProgress, bridge, boot, hist>>

\* /progress: createUpdatePlatformDataTransaction and sendTransactionT settle
\* (no handler state is read between the two awaits); then the response
ProgressSendTransaction(s, ok) ==
  LET h == inflight[s]
      res == [Quiet EXCEPT !.op = "progress", !.phase = "sendTransactionT",
                !.wallet = h.wallet, !.challengeId = h.challengeId, !.delta = h.delta]
  IN
  /\ boot # "exit"
  /\ h.op = "progress" /\ h.pc = "sendTransactionT"
  /\ inflight' = [inflight EXCEPT ![s] = Idle]
  /\ last' = IF ok THEN [res EXCEPT !.status = 200, !.progress = heap[h.obj]]
             ELSE [res EXCEPT !.status = 400, !.error = "collaborator"]
  /\ heap' = Collect(heap, playerProgress, inflight')
  /\ UNCHANGED <<now, currentDate, challenges, playerProgress, bridge, boot, hist>>

\* ensureProjectInitialized: await getExistingProject(...) settles
ListenGetExistingProject(outcome) ==
  /\ boot = "getExistingProject"
  /\ IF outcome = "found"
     THEN honeycombProject' = "existing" /\ boot' = "createProfilesTree"
     ELSE honeycombProject' = honeycombProject /\ boot' = "initializeProject"
  /\ UNCHANGED <<now, currentDate, challenges, playerProgress, heap, sessions,
                 activeSessions, inflight, hist, last>>

\* the app.listen callback after ensureProjectInitialized() returned:
\* challengeStore.challenges = generateDailyChallenges()
ListenReady ==
  /\ \E amount \in [1..NChallenges -> Amounts], units \in [1..NChallenges -> Amounts] :
       challenges' = generateDailyChallenges(amount, units)
  /\ boot' = "ready"

\* the app.listen callback's catch: process.exit(1)
ListenExit ==
  /\ challenges' = challenges
  /\ boot' = "exit"

\* ensureProjectInitialized: await createProfilesTree(honeycombProject) settles,
\* for the project that was found or for the one that was created
ListenCreateProfilesTree(ok) ==
  /\ boot \in {"createProfilesTree", "createProfilesTreeOfNew"}
  /\ IF ok THEN ListenReady
     ELSE IF boot = "createProfilesTree"
     THEN challenges' = challenges /\ boot' = "initializeProject"
     ELSE ListenExit
  /\ UNCHANGED <<now, currentDate, playerProgress, heap, bridge, inflight, hist, last>>

\* ensureProjectInitialized: honeycombProject = await initializeProject() settles
ListenInitializeProject(ok) ==
  /\ boot = "initializeProject"
  /\ IF ok
     THEN honeycombProject' = "created" /\ boot' = "createProfilesTreeOfNew"
                                        /\ challenges' = challenges
     ELSE honeycombProject' = honeycombProject /\ ListenExit
  /\ UNCHANGED <<now, currentDate, playerProgress, heap, sessions, activeSessions,
                 inflight, hist, last>>

\* the module is loaded: challengeStore = { currentDate: today, challenges: [], ... }
Init ==
  /\ now = 0
  /\ currentDate = Today
  /\ challenges = <<>>
  /\ playerProgress = NoLedger
  /\ heap = EmptyMap
  /\ sessions = NoSessions
  /\ activeSessions = [t \in Tokens |-> <<>>]
  /\ honeycombProject = ""
  /\ inflight = [s \in Slots |-> Idle]
  /\ boot = "getExistingProject"
  /\ hist = [served |-> 0, paid |-> NonePaid]
  /\ last = Quiet

Next ==
  \/ Tick
  \/ \E outcome \in {"found", "absent", "error"} : ListenGetExistingProject(outcome)
  \/ \E ok \in BOOLEAN : ListenCreateProfilesTree(ok)
  \/ \E ok \in BOOLEAN : ListenInitializeProject(ok)
  \/ GetChallenges
  \/ \E t \in Tokens, w \in WalletInputs, sig \in Signatures : LinkWallet(t, w, sig)
  \/ \E t \in Tokens, w \in WalletInputs, sig \in Signatures, a \in AccessTokens :
       VerifySession(t, w, sig, a)
  \/ \E t \in Tokens \cup {Inherited} : CheckSession(t)
  \/ \E t \in Tokens \cup {"", Inherited}, w \in Players \cup {Undefined}, cid \in RequestIds,
        d \in Deltas :
       Progress(t, w, cid, d)
  \/ \E s \in Slots, ok \in BOOLEAN : ProgressGetProfileAddress(s, ok)
  \/ \E s \in Slots, ok \in BOOLEAN : ProgressSendTransaction(s, ok)

Spec == Init /\ [][Next]_vars

(* ========= src/server.js: the Honeycomb routes, SpecRoutes ============= *)

\* the message honeycombClient.authRequest issued for the wallet to sign
AuthMessage == [text |-> "honeycomb auth request", arg |-> ""]
AuthSignatures == {Sign(w, AuthMessage) : w \in Players} \cup {Short, Missing}

\* no handler catches the rejection of an async handler's promise and line 931
\* only logs it: the router leaves the request unanswered (status 0, express 4)
\* or passes the error to its default handler, which answers 500 (express 5)
Rejected == {0, 500}

\* app.post("/honeycomb-auth-confirm") up to await honeycombClient.authConfirm:
\* signature.split throws on a request without a signature
HoneycombAuthConfirm(walletAddress, signature) ==
  LET req == [Quiet EXCEPT !.op = "honeycomb-auth-confirm", !.phase = "request",
                !.wallet = walletAddress,
                !.malformed = Malformed(signature, walletAddress)]
  IN
  /\ boot # "exit"
  /\ hist.served < MaxRequests
  /\ hist' = [hist EXCEPT !.served = @ + 1]
  /\ IF signature.form = "missing"
     THEN /\ \E status \in Rejected :
               last' = [req EXCEPT !.status = status, !.error = "unhandled rejection"]
          /\ inflight' = inflight
     ELSE /\ FreeSlots # {}
          /\ inflight' = [inflight EXCEPT ![FreeSlot] =
                [Idle EXCEPT !.op = "honeycomb-auth-confirm", !.pc = "authConfirm",
                             !.wallet = walletAddress]]
          /\ last' = req
  /\ UNCHANGED <<now, currentDate, challenges, playerProgress, heap, bridge, boot>>

\* /honeycomb-auth-confirm: await honeycombClient.authConfirm(...) settles
HoneycombAuthConfirmSettles(s, ok) ==
  LET h == inflight[s]
      res == [Quiet EXCEPT !.op = "honeycomb-auth-confirm", !.phase = "authConfirm",
                !.wallet = h.wallet]
  IN
  /\ boot # "exit"
  /\ h.op = "honeycomb-auth-confirm" /\ h.pc = "authConfirm"
  /\ inflight' = [inflight EXCEPT ![s] = Idle]
  /\ IF ok THEN last' = [res EXCEPT !.status = 200]
     ELSE \E status \in Rejected :
            last' = [res EXCEPT !.status = status, !.error = "unhandled rejection"]
  /\ UNCHANGED <<now, currentDate, challenges, playerProgress, heap, bridge, boot, hist>>

\* app.post("/getAccessToken"): challengeStore.sessions[sessionToken] throws
\* while sessions is undefined; the catch logs and sends nothing
GetAccessToken(sessionToken) ==
  LET req == [Quiet EXCEPT !.op = "getAccessToken", !.phase = "request",
                !.token = sessionToken]
  IN
  /\ boot # "exit"
  /\ hist.served < MaxRequests
  /\ hist' = [hist EXCEPT !.served = @ + 1]
  /\ last' = IF ~sessions.defined THEN [req EXCEPT !.error = "TypeError"]
             ELSE IF sessions.map[sessionToken] = <<>>
             THEN [req EXCEPT !.error = "No session found"]
             ELSE [req EXCEPT !.status = 200, !.session = sessions.map[sessionToken]]
  /\ UNCHANGED <<now, currentDate, challenges, playerProgress, heap, bridge, inflight, boot>>

\* app.post("/data") up to await honeycombClient.findProfiles(...): the catch
\* rethrows what it caught
Data(sessionToken) ==
  LET req == [Quiet EXCEPT !.op = "data", !.phase = "request", !.token = sessionToken] IN
  /\ boot # "exit"
  /\ hist.served < MaxRequests
  /\ hist' = [hist EXCEPT !.served = @ + 1]
  /\ IF ~sessions.defined
     THEN /\ \E status \in Rejected :
               last' = [req EXCEPT !.status = status, !.error = "unhandled rejection"]
          /\ inflight' = inflight
     ELSE IF sessions.map[sessionToken] = <<>>
     THEN /\ last' = [req EXCEPT !.status = 401, !.error = "Invalid session"]
          /\ inflight' = inflight
     ELSE /\ FreeSlots # {}
          /\ inflight' = [inflight EXCEPT ![FreeSlot] =
                [Idle EXCEPT !.op = "data", !.pc = "sendTransactionT"]]
          /\ last' = req
  /\ UNCHANGED <<now, currentDate, challenges, playerProgress, heap, bridge, boot>>

\* /data: findProfiles, createUpdateProfileTransaction and sendTransactionT
\* settle (the handler reads no shared state between them); on success the
\* handler returns { tx } and sends nothing, a failure is rethrown
DataSettles(s, ok) ==
  LET res == [Quiet EXCEPT !.op = "data", !.phase = "sendTransactionT"] IN
  /\ boot # "exit"
  /\ inflight[s].op = "data" /\ inflight[s].pc = "sendTransactionT"
  /\ inflight' = [inflight EXCEPT ![s] = Idle]
  /\ IF ok THEN last' = res
     ELSE \E status \in Rejected :
            last' = [res EXCEPT !.status = status, !.error = "unhandled rejection"]
  /\ UNCHANGED <<now, currentDate, challenges, playerProgress, heap, bridge, boot, hist>>

NextRoutes ==
  \/ \E t \in Tokens, w \in WalletInputs, sig \in Signatures : LinkWallet(t, w, sig)
  \/ \E t \in Tokens, w \in WalletInputs, sig \in Signatures, a \in AccessTokens :
       VerifySession(t, w, sig, a)
  \/ \E w \in Players, sig \in AuthSignatures : HoneycombAuthConfirm(w, sig)
  \/ \E s \in Slots, ok \in BOOLEAN : HoneycombAuthConfirmSettles(s, ok)
  \/ \E t \in Tokens : GetAccessToken(t)
  \/ \E t \in Tokens : Data(t)
  \/ \E s \in Slots, ok \in BOOLEAN : DataSettles(s, ok)

SpecRoutes == Init /\ [][NextRoutes]_vars

(* ============ a burst of +1 reports on part_000: SpecBurst ============= *)

\* the record the burst is aimed at: challenge 0 of the set generated at boot
BurstWallet == "W1"
BurstId == <<0, 0>>

\* the app.listen callback of part_000 has generated the first set and awaits
\* createHoneycombBadges
InitBurst ==
  /\ now = 0
  /\ currentDate = Today
  /\ \E amount \in [1..NChallenges -> Amounts] : challenges = RewardsGenerate(amount)
  /\ playerProgress = NoLedger
  /\ heap = EmptyMap
  /\ inflight = [s \in Slots |-> Idle]
  /\ boot = "createHoneycombBadges"
  /\ sessions = NoSessions
  /\ activeSessions = [t \in Tokens |-> <<>>]
  /\ honeycombProject = ""
  /\ hist = [served |-> 0, paid |-> NonePaid]
  /\ last = Quiet

\* every request is POST /progress {BurstWallet, BurstId, progress: 1}
NextBurst ==
  \/ Tick
  \/ P0_ListenBadges
  \/ P0_Progress(BurstWallet, BurstId, 1)
  \/ \E s \in Slots, ok \in BOOLEAN : P0_AwardBadge(s, ok)
  \/ \E s \in Slots, ok \in BOOLEAN : P0_UpdatePlayerStats(s, ok)

SpecBurst == InitBurst /\ [][NextBurst]_vars

(* ============================ properties =============================== *)

\* challengeStore.playerProgress[w]?.[cid]?.completed, 0 when there is no record
StoredCompleted(pp, h, w, cid) ==
  IF pp[w].defined /\ Lookup(pp[w].entries, cid) # NoObj
  THEN h[Lookup(pp[w].entries, cid)].completed
  ELSE 0

\* a session is stored under the token (an own property of sessions)
Stored(ss, token) == ss.defined /\ token \in Tokens /\ ss.map[token] # <<>>

\* no handler is suspended at an await
Quiescent == \A s \in Slots : inflight[s].op = "idle"

\* the step is the arrival of a request (not the resumption of a handler)
Arrival == hist'.served = hist.served + 1

\* C1: when T requests that each report +1 for the same (wallet, challengeId)
\* have all been answered, whatever the order in which their handlers ran and
\* resumed, the stored completed value of the record is min(T, amount).
C1_NoLostUpdate ==
  Quiescent =>
    StoredCompleted(playerProgress, heap, BurstWallet, BurstId)
      = Min(hist.served, Find(challenges, BurstId).amount)

C3_Monotone ==
  [][(/\ currentDate' = currentDate
      /\ challenges' = challenges
      /\ ~(Arrival /\ last'.op = "progress" /\ last'.delta < 0))
     => \A w \in Wallets : \A i \in 1..Len(challenges) :
          /\ StoredCompleted(playerProgress', heap', w, challenges[i].id)
               >= StoredCompleted(playerProgress, heap, w, challenges[i].id)
          /\ StoredCompleted(playerProgress', heap', w, challenges[i].id)
               <= challenges[i].amount]_vars

\* C4: a report of delta d >= 0 for an active challenge that is answered with
\* 200, made when the stored completed value is k, leaves min(k + d, amount)
\* stored and returns that value.  (Stated for the reports that are answered
\* without a suspension, where the request and the response are one step.)
C4_Clamped ==
  [][(/\ Arrival
      /\ last'.op = "progress" /\ last'.status = 200 /\ last'.delta >= 0
      /\ Find(challenges, last'.challengeId) # NoChallenge)
     => LET w == last'.wallet
            cid == last'.challengeId
            want == Min(StoredCompleted(playerProgress, heap, w, cid) + last'.delta,
                        Find(challenges, cid).amount)
        IN /\ StoredCompleted(playerProgress', heap', w, cid) = want
           /\ last'.progress.completed = want]_vars

\* C5: every stored session carries a signature that verifies against its
\* walletAddress over the session message of its token, and a session appears
\* only in the step of a /verify-session answered 200; a /verify-session or
\* /link-wallet that is refused leaves both session stores as they were; and
\* /check-session for a token with no confirmed session answers "Not linked".
C5_SessionsVerified ==
  [][/\ \A t \in Tokens :
          /\ sessions'.map[t] # <<>> =>
               DetachedVerify(SessionMessage(t), sessions'.map[t][1].signature,
                              sessions'.map[t][1].walletAddress)
          /\ sessions'.map[t] # sessions.map[t] =>
               Arrival /\ last'.op = "verify-session" /\ last'.status = 200
     /\ (Arrival /\ last'.op \in {"verify-session", "link-wallet"} /\ last'.status # 200)
          => sessions' = sessions /\ activeSessions' = activeSessions
     /\ (Arrival /\ last'.op = "check-session" /\ ~Stored(sessions, last'.token))
          => last'.error = "Not linked" /\ last'.session = <<>>]_vars

\* C5 witness: a confirm with a signature that does not verify has just been
\* refused while a verified session is in the store
C5_Witness ==
  /\ last.op = "verify-session" /\ last.status = 400 /\ last.error = "Invalid signature"
  /\ \E t \in Tokens : SessionOf(sessions, t) # <<>>

\* C6: a GET /challenges that finds the stored day different from the calendar
\* day replaces the set by three challenges generated in that step, leaves no
\* progress entry of any wallet, and stores the calendar day.
C6_Rotation ==
  [][(Arrival /\ last'.op = "challenges" /\ currentDate # DayOf(now))
     => /\ Len(challenges') = NChallenges
        /\ \A i \in 1..Len(challenges') :
             /\ challenges'[i].id = <<now, i - 1>>
             /\ challenges'[i].amount \in Amounts
        /\ playerProgress' = NoLedger
        /\ currentDate' = DayOf(now)]_vars

\* C6 witness: the rotation to the second day has been answered
C6_Witness ==
  /\ last.op = "challenges" /\ last.status = 200
  /\ currentDate = DayOf(now) /\ currentDate # DayOf(0)
  /\ Len(challenges) = NChallenges /\ playerProgress = NoLedger

\* C7: /check-session never returns a session that was verified on a day
\* before the stored day, that is, before the rotation that stored that day.
C7_SessionsEndAtRotation ==
  (last.op = "check-session" /\ last.session # <<>>)
    => DayOf(last.session[1].verifiedAt) >= currentDate

\* C8: a GET /challenges on the stored day leaves the challenge set, the stored
\* day, the session stores and the progress ledger unchanged.
C8_SameDayNoOp ==
  [][(Arrival /\ last'.op = "challenges" /\ currentDate = DayOf(now))
     => /\ challenges' = challenges
        /\ currentDate' = currentDate
        /\ sessions' = sessions /\ activeSessions' = activeSessions
        /\ playerProgress' = playerProgress /\ heap' = heap]_vars

\* C8 witness: GET /challenges has been answered on the day the process
\* started (the stored day was never replaced) with a challenge set, a session
\* and a progress entry in the store
C8_Witness ==
  /\ last.op = "challenges" /\ last.status = 200
  /\ currentDate = DayOf(0) /\ now = 0
  /\ Len(challenges) = NChallenges
  /\ \E t \in Tokens : SessionOf(sessions, t) # <<>>
  /\ \E w \in Wallets : playerProgress[w].defined

\* C9: every GET /challenges is answered with an array of three challenges,
\* and one that follows another on the same stored day is answered with the
\* same array.
C9_FirstAndSame ==
  [][(Arrival /\ last'.op = "challenges")
     => /\ Len(last'.challenges) = NChallenges
        /\ (last.op = "challenges" /\ last.status = 200 /\ currentDate' = currentDate)
             => last'.challenges = last.challenges]_vars

\* C10: a claim request of wallet w that arrives as the very next step after a
\* claim of w succeeded, with no progress report of w in between, is answered
\* 400 "No rewards to claim" at once: it reaches no payout and carries no reward.
C10_SecondClaimEmpty ==
  [][(Arrival /\ last'.op = "claim" /\ last'.follows)
     => /\ last'.status = 400
        /\ last'.error = "No rewards to claim"
        /\ last'.reward = 0
        /\ inflight' = inflight
        /\ hist'.paid = hist.paid
        /\ playerProgress' = playerProgress /\ heap' = heap]_vars

\* C10 witness: such a second claim has been answered
C10_Witness ==
  last.op = "claim" /\ last.phase = "request" /\ last.follows /\ last.status = 400

\* the entries of wallet w that are completed-unclaimed: the challenge is
\* active, completed has reached its amount and claimed is false
CompletedUnclaimed(h, pp, cs, w) ==
  IF pp[w].defined
  THEN SelectSeq(pp[w].entries,
                 LAMBDA e : /\ Find(cs, e.id) # NoChallenge
                            /\ h[e.obj].completed >= Find(cs, e.id).amount
                            /\ ~h[e.obj].claimed)
  ELSE <<>>

\* no record of wallet w holds a negative counter (no report carried a
\* negative progress field that is still visible)
NonNegative(h, pp, w) ==
  \A i \in 1..Len(pp[w].entries) : h[pp[w].entries[i].obj].completed >= 0

\* C11: a claim request of a wallet with no completed-unclaimed record is
\* answered 400 "No rewards to claim" at once: no handler goes on to the
\* payout, and the challenges, the sessions and the progress ledger are unchanged.
C11_NothingToClaim ==
  [][(/\ Arrival /\ last'.op = "claim"
      /\ NonNegative(heap, playerProgress, last'.wallet)
      /\ CompletedUnclaimed(heap, playerProgress, challenges, last'.wallet) = <<>>)
     => /\ last'.status = 400 /\ last'.error = "No rewards to claim"
        /\ inflight' = inflight
        /\ challenges' = challenges /\ sessions' = sessions
        /\ playerProgress' = playerProgress /\ heap' = heap]_vars

\* C12: the total a claim request hands to the payout is the sum of the
\* rewards of the completed-unclaimed records of its wallet, and the step that
\* answers a claim marks no record that has not reached its amount.
C12_RewardOfCompleted ==
  [][/\ (Arrival /\ last'.op = "claim" /\ NonNegative(heap, playerProgress, last'.wallet))
          => \A s \in Slots :
               inflight'[s] # inflight[s] =>
                 inflight'[s].totalReward =
                   TotalReward(challenges,
                     CompletedUnclaimed(heap, playerProgress, challenges, last'.wallet))
     /\ \A s \in Slots :
          (inflight[s].op = "claim" /\ inflight'[s].op = "idle") =>
             \A i \in 1..Len(playerProgress[inflight[s].wallet].entries) :
               LET e == playerProgress[inflight[s].wallet].entries[i] IN
               (heap'[e.obj].claimed /\ ~heap[e.obj].claimed /\ heap[e.obj].completed >= 0)
                 => /\ Find(challenges, e.id) # NoChallenge
                    /\ heap[e.obj].completed >= Find(challenges, e.id).amount]_vars

\* C13: when a report for (w, c) has just been answered 200 with completed =
\* c.amount and that record is the only one of w, a claim request of w that
\* arrives next is not refused: its handler goes on to the payout with
\* c.reward, the reward it returns when the payout resolves.
C13_CompletedIsClaimable ==
  [][(/\ Arrival /\ last'.op = "claim" /\ last'.wallet = last.wallet
      /\ last.op = "progress" /\ last.status = 200
      /\ Find(challenges, last.challengeId) # NoChallenge
      /\ last.progress.completed = Find(challenges, last.challengeId).amount
      /\ Len(playerProgress[last.wallet].entries) = 1)
     => /\ last'.status # 400
        /\ \E s \in Slots :
             /\ inflight[s].op = "idle" /\ inflight'[s].op = "claim"
             /\ inflight'[s].totalReward = Find(challenges, last.challengeId).reward]_vars

C15_ProgressKeepsClaimed ==
  [][(/\ last'.op = "progress"
      /\ \/ Arrival
         \/ \E s \in Slots : inflight[s].op = "progress" /\ inflight'[s] # inflight[s])
     => /\ \A o \in DOMAIN heap' :
             heap'[o].claimed => (o \in DOMAIN heap /\ heap[o].claimed)
        /\ (last'.status = 200 /\ last'.progress.claimed)
             => \E o \in DOMAIN heap : heap[o].claimed]_vars

\* challengeStore.playerProgress[w]?.[cid]?.claimed, FALSE when there is no record
StoredClaimed(pp, h, w, cid) ==
  IF pp[w].defined /\ Lookup(pp[w].entries, cid) # NoObj
  THEN h[Lookup(pp[w].entries, cid)].claimed
  ELSE FALSE

\* C16: while the day and the challenge set stay the same, a step that is not
\* the arrival of a report with a negative delta keeps every record that is
\* claimed claimed and lowers the completed value of no record.
C16_ForwardOnly ==
  [][(/\ currentDate' = currentDate
      /\ challenges' = challenges
      /\ ~(Arrival /\ last'.op = "progress" /\ last'.delta < 0))
     => \A w \in Wallets : \A i \in 1..Len(challenges) :
          /\ StoredClaimed(playerProgress, heap, w, challenges[i].id)
               => StoredClaimed(playerProgress', heap', w, challenges[i].id)
          /\ StoredCompleted(playerProgress', heap', w, challenges[i].id)
               >= StoredCompleted(playerProgress, heap, w, challenges[i].id)]_vars

\* C17: a report that passes the session check and names a challengeId that is
\* not in the active set is answered 400 "Challenge not found" and leaves the
\* ledger without a record for it and without a new entry for the wallet.
C17_UnknownChallenge ==
  [][(/\ Arrival /\ last'.op = "progress" /\ last'.error # "Invalid session"
      /\ last'.delta >= 0
      /\ Find(challenges, last'.challengeId) = NoChallenge)
     => /\ last'.status = 400 /\ last'.error = "Challenge not found"
        /\ playerProgress' = playerProgress
        /\ heap' = heap
        /\ \A s \in Slots : inflight[s].op = "idle" => inflight'[s].op = "idle"]_vars

\* part of the store belongs to a day before the stored day: a challenge
\* generated, or a session verified, on an earlier day
HalfReset(cd, cs, ss) ==
  \/ \E i \in 1..Len(cs) : DayOf(cs[i].id[1]) < cd
  \/ \E t \in Tokens : SessionOf(ss, t) # <<>> /\ DayOf(SessionOf(ss, t)[1].verifiedAt) < cd

\* C18: a GET /challenges replaces the challenge set only when the stored day
\* is not the calendar day, and it then stores the calendar day, so that the
\* requests of one day generate one set; and no step leaves a store of which a
\* part belongs to a day before the stored day.
C18_RotationAtomic ==
  [][/\ (Arrival /\ last'.op = "challenges" /\ challenges' # challenges)
          => currentDate # DayOf(now) /\ currentDate' = DayOf(now)
     /\ ~HalfReset(currentDate', challenges', sessions')]_vars

\* C19: no request is served from a session of an earlier calendar day:
\* /check-session returns only a session verified on the day of the request,
\* and /progress accepts a session token only if its session was verified on
\* the day of the request.
C19_DayCheckEverywhere ==
  [][/\ (Arrival /\ last'.op = "check-session" /\ last'.session # <<>>)
          => DayOf(last'.session[1].verifiedAt) = DayOf(now)
     /\ (Arrival /\ last'.op = "progress" /\ last'.token # ""
           /\ last'.error # "Invalid session")
          => /\ SessionOf(sessions, last'.token) # <<>>
             /\ DayOf(SessionOf(sessions, last'.token)[1].verifiedAt) = DayOf(now)]_vars

\* C20: while the stored day stays the same, a session that exists for a token
\* stays, with the walletAddress and the verifiedAt it was stored with.
C20_SessionImmutable ==
  [][\A t \in Tokens :
       (sessions.map[t] # <<>> /\ currentDate' = currentDate)
       => /\ sessions'.map[t] # <<>>
          /\ sessions'.map[t][1].walletAddress = sessions.map[t][1].walletAddress
          /\ sessions'.map[t][1].verifiedAt = sessions.map[t][1].verifiedAt]_vars

\* C21: the token of every newly stored session is generated by the server on
\* a successful confirm: it is not the token the request carried, and it
\* differs from every token already present in the session store.
C21_TokenMintedByServer ==
  [][\A t \in Tokens :
       (sessions'.map[t] # sessions.map[t] /\ sessions'.map[t] # <<>>)
         => /\ last'.op = "verify-session" /\ last'.status = 200
            /\ sessions.map[t] = <<>>
            /\ t # last'.token]_vars

\* C22: a signature that confirm has accepted once is not accepted again: a
\* confirm is never answered with success when a stored session already holds
\* the same wallet and signature (the pair was accepted by an earlier confirm).
C22_NoReplay ==
  [][(Arrival /\ last'.op = "verify-session" /\ last'.status = 200)
       => \A t \in Tokens :
            \/ sessions.map[t] = <<>>
            \/ sessions.map[t][1].signature # sessions'.map[last'.token][1].signature
            \/ sessions.map[t][1].walletAddress
                 # sessions'.map[last'.token][1].walletAddress]_vars

\* C23: a POST /progress that identifies the player only by the token of a
\* stored session (no walletAddress field) is accepted, and its delta is applied
\* to the record of the wallet bound to that session.
C23_TokenAlone ==
  [][(/\ Arrival /\ last'.op = "progress" /\ last'.wallet = Undefined
      /\ Stored(sessions, last'.token)
      /\ last'.delta >= 0)
       => /\ last'.status # 400
          /\ playerProgress'[sessions.map[last'.token][1].walletAddress].defined]_vars

\* C24: a request whose signature or public key is malformed is rejected: no
\* fault leaves its handler without an error response being sent, nothing is
\* accepted and no session is stored.
C24_MalformedRejected ==
  [][(Arrival /\ last'.malformed)
       => /\ last'.error = "unhandled rejection" => last'.status # 0
          /\ last'.status # 200
          /\ sessions' = sessions /\ activeSessions' = activeSessions]_vars

\* C25: every request receives a response: a handler that has run to its end,
\* by returning or by throwing, has sent a response (a fault is converted to an
\* error response).
C25_EveryRequestAnswered ==
  [][(\/ (Arrival /\ \A s \in Slots : inflight'[s].op = inflight[s].op)
      \/ \E s \in Slots : inflight[s].op # "idle" /\ inflight'[s].op = "idle")
       => last'.status # 0]_vars

\* C26: a POST /progress whose progress field is negative (or that lacks a
\* field) is rejected with 400 and changes no state: no ledger entry is created,
\* no counter is changed and no collaborator is called.
C26_InvalidReportRejected ==
  [][(Arrival /\ last'.op = "progress"
      /\ (last'.delta < 0 \/ last'.wallet = Undefined))
       => /\ last'.status = 400
          /\ playerProgress' = playerProgress
          /\ heap' = heap
          /\ \A s \in Slots : inflight'[s].op = inflight[s].op]_vars

\* C27: GET /check-session?token=T answers {error:"Not linked"} exactly when no
\* session is stored under T, and otherwise answers the stored session of T
\* with its walletAddress; the lookup changes no state.
C27_Lookup ==
  [][(Arrival /\ last'.op = "check-session")
       => /\ (last'.error = "Not linked") <=> ~Stored(sessions, last'.token)
          /\ Stored(sessions, last'.token)
               => /\ last'.session = sessions.map[last'.token]
                  /\ last'.wallet = sessions.map[last'.token][1].walletAddress
          /\ UNCHANGED <<currentDate, challenges, playerProgress, heap, sessions,
                         activeSessions, honeycombProject, inflight, boot>>]_vars

\* C28: while a POST /claim waits for the external payout call, a POST
\* /progress of any wallet for an active challenge is taken up, a progress
\* handler that has not answered is waiting for its own collaborator call and
\* for nothing else, and its next step can be taken: the claim in flight
\* blocks none of them.
C28_ClaimNeverBlocksProgress ==
  (\E c \in Slots : inflight[c].op = "claim" /\ inflight[c].pc = "distributeRewards")
    => /\ (hist.served < MaxReports /\ \E s \in Slots : inflight[s].op = "idle")
            => \A w \in Wallets : \A i \in 1..Len(challenges) : \A d \in Deltas :
                 InRange(StoredCompleted(playerProgress, heap, w, challenges[i].id) + d)
                   => ENABLED P0_Progress(w, challenges[i].id, d)
       /\ \A s \in Slots : inflight[s].op = "progress"
            => ENABLED (\E ok \in BOOLEAN : P0_AwardBadge(s, ok) \/ P0_UpdatePlayerStats(s, ok))
       /\ (last.op = "progress" /\ last.status = 0)
            => \E s \in Slots : /\ inflight[s].op = "progress"
                                /\ inflight[s].wallet = last.wallet
                                /\ inflight[s].challengeId = last.challengeId

\* C28 witness: a progress report was taken up and answered 200 while a claim
\* of the same wallet is waiting for its payout
C28_Witness ==
  /\ \E c \in Slots : /\ inflight[c].op = "claim" /\ inflight[c].pc = "distributeRewards"
                      /\ inflight[c].wallet = last.wallet /\ inflight[c].dirty
  /\ last.op = "progress" /\ last.status = 200

\* C29: a POST /progress that carries a sessionToken is applied only when a
\* session is stored under that token and its walletAddress equals the
\* request's walletAddress; otherwise the request is answered with an error and
\* neither the ledger nor a collaborator is touched.
C29_TokenChecked ==
  [][(/\ Arrival /\ last'.op = "progress" /\ last'.token # "" /\ last'.delta >= 0
      /\ ~(/\ Stored(sessions, last'.token)
           /\ sessions.map[last'.token][1].walletAddress = last'.wallet))
       => /\ last'.status = 400 /\ last'.error = "Invalid session"
          /\ playerProgress' = playerProgress /\ heap' = heap
          /\ inflight' = inflight]_vars

\* C30: awardBadge and updatePlayerStats are performed at most once for a
\* (wallet, challengeId): no two /progress handlers are at the same time between
\* their call of awardBadge and their response for the same wallet and challenge.
C30_AwardOnce ==
  \A s, t \in Slots :
    (/\ s # t
     /\ inflight[s].op = "progress" /\ inflight[t].op = "progress"
     /\ inflight[s].wallet = inflight[t].wallet)
      => inflight[s].challengeId # inflight[t].challengeId

\* C31: when a POST /progress is answered with an error because its
\* collaborator call failed, the stored record it reported on is as it was
\* before the request.  Stated for a handler whose request arrived in the
\* previous step (nothing else ran in between): if the ledger holds the record
\* the handler works on, its completed value after the error is the value it
\* had before the request, which is the present value less the delta.
C31_FailedReportKeepsLedger ==
  [][\A s \in Slots :
       (/\ inflight[s].op = "progress" /\ inflight'[s].op = "idle"
        /\ last'.error = "collaborator"
        /\ last.op = "progress" /\ last.phase = "request" /\ last.status = 0
        /\ last.wallet = inflight[s].wallet
        /\ last.challengeId = inflight[s].challengeId
        /\ \A t \in Slots : inflight[t].op = "progress" => t = s
        /\ playerProgress[inflight[s].wallet].defined
        /\ Lookup(playerProgress[inflight[s].wallet].entries, inflight[s].challengeId)
             = inflight[s].obj)
         => /\ playerProgress' = playerProgress
            /\ heap'[inflight[s].obj].completed
                 = heap[inflight[s].obj].completed - last.delta]_vars

\* C32: in every reachable state, every progress record stored in the ledger is
\* keyed by the id of a challenge of the active set.
C32_KeysAreActive ==
  \A w \in LedgerKeys : \A i \in 1..Len(playerProgress[w].entries) :
    Find(challenges, playerProgress[w].entries[i].id) # NoChallenge

C34_XpBounded ==
  [][\A s \in Slots :
       (/\ inflight[s].op = "progress" /\ inflight[s].pc = "sendTransactionT"
        /\ inflight'[s].op = "idle" /\ last'.status = 200
        /\ inflight[s].delta > 0)
         => /\ Find(challenges, inflight[s].challengeId) # NoChallenge
            /\ inflight[s].delta * RewardPerUnit
                 <= Find(challenges, inflight[s].challengeId).amount * RewardPerUnit]_vars

\* C35: a stored session holds only the wallet address, the verification time
\* and the access token; the signature is neither stored in a session nor
\* returned by GET /check-session.
C35_NoSignatureKept ==
  LET SessionFields == {"walletAddress", "verifiedAt", "accessToken"} IN
  /\ \A t \in Tokens :
       sessions.map[t] # <<>> => DOMAIN sessions.map[t][1] \subseteq SessionFields
  /\ (last.op = "check-session" /\ last.session # <<>>)
       => DOMAIN last.session[1] \subseteq SessionFields

\* C36: at startup a new project is created only when no project was found: the
\* step that stores a newly created project starts from a state in which
\* honeycombProject holds no project that the lookup returned.
C36_CreateOnlyOnAbsence ==
  [][(honeycombProject' = "created" /\ honeycombProject # "created")
       => honeycombProject = ""]_vars

====
